---- MODULE Spec2Model ----
(***************************************************************************)
(* py4DSTEM/process/braggdiskdetection/probetemplate.py                    *)
(*                                                                         *)
(* A call of one of the four functions of the file is a run of the state   *)
(* machine: the array argument is fixed in the initial state, the          *)
(* averaging loop of get_average_probe_from_vacuum_scan is one step per    *)
(* iteration, its masking is one step, and each kernel generator is one    *)
(* step.  A call ends in pc = "returned" or, on an exception, "raised".    *)
(*                                                                         *)
(* Numbers.  An array element is a pair <<n, d>>: the rational n/d in      *)
(* lowest terms when d > 0, and an IEEE special when d = 0 (<<0,0>> is     *)
(* NaN, <<1,0>> is +inf, <<-1,0>> is -inf).  Arithmetic is exact on the    *)
(* rationals (rounding is not modelled) and follows IEEE-754 on the        *)
(* specials, which is what numpy does with its default error state         *)
(* (a RuntimeWarning, no exception).                                       *)
(***************************************************************************)
EXTENDS Integers, Sequences, FiniteSets, TLC

\* ------------------------------------------------------------- bounds
\* diffraction patterns are Q_Nx x Q_Ny with Q_Nx = QSide, Q_Ny = QSide - 1
QSide == 4
\* scan shapes R_Nx x R_Ny with 1 <= R_Nx, R_Ny <= MaxR
MaxR == 2
\* mask_opening and mask_expansion range over 0 .. MaxIter
MaxIter == 2
\* probe intensities handed to the kernel generators range over 0 .. MaxVal
MaxVal == 2

Q_Nx == QSide
Q_Ny == QSide - 1

\* ------------------------------------------------- float arithmetic
Abs(x) == IF x < 0 THEN -x ELSE x
Sign(x) == IF x > 0 THEN 1 ELSE IF x < 0 THEN -1 ELSE 0

RECURSIVE Gcd(_, _)
Gcd(a, b) == IF b = 0 THEN a ELSE Gcd(b, a % b)

\* n/d as a float: lowest terms, positive denominator; x/0 is +-inf, 0/0 NaN
Rat(n, d) ==
    IF d = 0 THEN <<Sign(n), 0>>
    ELSE LET g == Gcd(Abs(n), Abs(d))
             s == Sign(d)
         IN  <<s * (n \div g), s * (d \div g)>>

NaN == <<0, 0>>
Zero == <<0, 1>>
One == <<1, 1>>
FromInt(k) == <<k, 1>>
IsNaN(a) == a = NaN
IsFinite(a) == a[2] # 0

FNeg(a) == <<-a[1], a[2]>>

FAdd(a, b) ==
    IF IsNaN(a) \/ IsNaN(b) THEN NaN
    ELSE IF ~IsFinite(a) /\ ~IsFinite(b) THEN (IF a = b THEN a ELSE NaN)
    ELSE IF ~IsFinite(a) THEN a
    ELSE IF ~IsFinite(b) THEN b
    ELSE LET g == Gcd(a[2], b[2])
         IN  Rat(a[1] * (b[2] \div g) + b[1] * (a[2] \div g), (a[2] \div g) * b[2])

FSub(a, b) == FAdd(a, FNeg(b))

FMul(a, b) ==
    IF IsNaN(a) \/ IsNaN(b) THEN NaN
    ELSE IF ~IsFinite(a) \/ ~IsFinite(b) THEN <<Sign(a[1]) * Sign(b[1]), 0>>
    ELSE LET g1 == Gcd(Abs(a[1]), b[2])
             g2 == Gcd(Abs(b[1]), a[2])
         IN  Rat((a[1] \div g1) * (b[1] \div g2), (a[2] \div g2) * (b[2] \div g1))

FDiv(a, b) ==
    IF IsNaN(a) \/ IsNaN(b) THEN NaN
    ELSE IF ~IsFinite(b) THEN (IF IsFinite(a) THEN Zero ELSE NaN)
    ELSE IF ~IsFinite(a) THEN <<a[1] * (IF b[1] < 0 THEN -1 ELSE 1), 0>>
    ELSE IF b[1] = 0 THEN <<Sign(a[1]), 0>>
    ELSE FMul(a, Rat(b[2], b[1]))

\* a > b; every comparison with NaN is False
FGreater(a, b) ==
    IF IsNaN(a) \/ IsNaN(b) THEN FALSE
    ELSE IF ~IsFinite(a) THEN a[1] = 1 /\ b # a
    ELSE IF ~IsFinite(b) THEN b[1] = -1
    ELSE a[1] * b[2] > b[1] * a[2]

\* ----------------------------------------------------------- arrays
Pix == (0 .. Q_Nx - 1) \X (0 .. Q_Ny - 1)
NPix == Q_Nx * Q_Ny
\* the k-th element in C (row-major) order
PixAt(k) == <<k \div Q_Ny, k % Q_Ny>>
PixIndex(p) == p[1] * Q_Ny + p[2]

\* an ndarray is a value: every element is computed once, when the array is built
\* (the comparison makes TLC build the function instead of keeping its rule)
Array(f) == IF f = f THEN f ELSE f

RECURSIVE SumUpTo(_, _)
SumUpTo(ar, k) == IF k = 0 THEN Zero ELSE FAdd(SumUpTo(ar, k - 1), ar[PixAt(k - 1)])
np_sum(ar) == SumUpTo(ar, NPix)

RECURSIVE MaxUpTo(_, _)
MaxUpTo(ar, k) ==
    IF k = 1 THEN ar[PixAt(0)]
    ELSE LET m == MaxUpTo(ar, k - 1)
             x == ar[PixAt(k - 1)]
         IN  IF IsNaN(m) \/ IsNaN(x) THEN NaN ELSE IF FGreater(x, m) THEN x ELSE m
np_max(ar) == MaxUpTo(ar, NPix)

\* an all-integer array as a float array
AsFloat(ar) == Array([p \in Pix |-> FromInt(ar[p])])

\* ------------------------------------- utils (not in this file)
\* circular translation by whole pixels
RollAt(ar, dx, dy, p) == ar[<<(p[1] - dx) % Q_Nx, (p[2] - dy) % Q_Ny>>]
Roll(ar, dx, dy) == Array([p \in Pix |-> RollAt(ar, dx, dy, p)])

Floor(a) == a[1] \div a[2]

\* sub-pixel circular shift: a whole-pixel roll when the shift is an integer,
\* bilinear interpolation between the two neighbouring rolls otherwise; a
\* non-finite shift leaves no defined element
get_shifted_ar(ar, xshift, yshift) ==
    IF ~IsFinite(xshift) \/ ~IsFinite(yshift) THEN [p \in Pix |-> NaN]
    ELSE LET fx == Floor(xshift)
             fy == Floor(yshift)
             tx == FSub(xshift, FromInt(fx))
             ty == FSub(yshift, FromInt(fy))
             ux == FSub(One, tx)
             uy == FSub(One, ty)
             a00 == Roll(ar, fx, fy)
             a10 == Roll(ar, fx + 1, fy)
             a01 == Roll(ar, fx, fy + 1)
             a11 == Roll(ar, fx + 1, fy + 1)
         IN  IF tx = Zero /\ ty = Zero THEN a00
             ELSE Array([p \in Pix |->
                     FAdd(FAdd(FMul(FMul(ux, uy), a00[p]), FMul(FMul(tx, uy), a10[p])),
                          FAdd(FMul(FMul(ux, ty), a01[p]), FMul(FMul(tx, ty), a11[p])))])

\* circular cross-correlation of ar1 with ar2 rolled by s
CrossCorrelation(ar1, ar2) ==
    Array([s \in Pix |-> np_sum([p \in Pix |-> FMul(ar1[p], RollAt(ar2, s[1], s[2], p))])])

\* the whole-pixel shift of ar2 that best aligns it to ar1: the first maximum
\* of the cross-correlation in C order (np.argmax)
get_shift(ar1, ar2) ==
    LET cc == CrossCorrelation(ar1, ar2)
    IN  CHOOSE s \in Pix :
          \A t \in Pix : /\ ~FGreater(cc[t], cc[s])
                         /\ (cc[t] = cc[s] => PixIndex(s) <= PixIndex(t))

\* intensity-weighted mean index; 0/0 = NaN on a zero-sum array
get_CoM(ar) ==
    LET tot_intens == np_sum(ar)
    IN  <<FDiv(np_sum([p \in Pix |-> FMul(FromInt(p[1]), ar[p])]), tot_intens),
          FDiv(np_sum([p \in Pix |-> FMul(FromInt(p[2]), ar[p])]), tot_intens)>>

\* ------------------------------------- scipy.ndimage.morphology
\* the default structuring element: the pixel and its four edge neighbours
Cross(p) == {p, <<p[1] - 1, p[2]>>, <<p[1] + 1, p[2]>>, <<p[1], p[2] - 1>>, <<p[1], p[2] + 1>>}

\* one erosion; outside the array counts as False (border_value = 0)
Erode(m) == Array([p \in Pix |-> \A q \in Cross(p) : q \in Pix /\ m[q]])
\* one dilation
Dilate(m) == Array([p \in Pix |-> \E q \in Cross(p) : q \in Pix /\ m[q]])

RECURSIVE ErodeTimes(_, _)
ErodeTimes(m, k) == IF k = 0 THEN m ELSE ErodeTimes(Erode(m), k - 1)
RECURSIVE ErodeUntilStable(_)
ErodeUntilStable(m) == IF Erode(m) = m THEN m ELSE ErodeUntilStable(Erode(m))
RECURSIVE DilateTimes(_, _)
DilateTimes(m, k) == IF k = 0 THEN m ELSE DilateTimes(Dilate(m), k - 1)
RECURSIVE DilateUntilStable(_)
DilateUntilStable(m) == IF Dilate(m) = m THEN m ELSE DilateUntilStable(Dilate(m))

\* iterations < 1: repeated until the result does not change any more
binary_erosion(m, iterations) ==
    IF iterations >= 1 THEN ErodeTimes(m, iterations) ELSE ErodeUntilStable(m)
binary_dilation(m, iterations) ==
    IF iterations >= 1 THEN DilateTimes(m, iterations) ELSE DilateUntilStable(m)
binary_opening(m, iterations) ==
    binary_dilation(binary_erosion(m, iterations), iterations)

\* ------------------------------------------------------- the inputs
\* a bright disk around c: 5 at c, 3 on its edge neighbours, 1 at city-block
\* distance 2, dark beyond
Blob(c) ==
    [p \in Pix |->
       LET d == Abs(p[1] - c[1]) + Abs(p[2] - c[2])
       IN  IF d = 0 THEN 5 ELSE IF d = 1 THEN 3 ELSE IF d = 2 THEN 1 ELSE 0]
\* the same disk with one hot pixel in the far corner (an x-ray hit)
BlobWithStray(c) == [Blob(c) EXCEPT ![<<Q_Nx - 1, Q_Ny - 1>>] = 5]
Dark == [p \in Pix |-> 0]
\* the diffraction patterns a vacuum scan is assembled from
Patterns == {AsFloat(Blob(<<1, 1>>)), AsFloat(Blob(<<2, 1>>)),
             AsFloat(BlobWithStray(<<1, 1>>)), AsFloat(Dark)}

ScanPositions(rnx, rny) == (0 .. rnx - 1) \X (0 .. rny - 1)
\* a DataCube of shape (rnx, rny, Q_Nx, Q_Ny): pattern b at the k-th scan
\* position (C order), pattern a everywhere else
DataCube(rnx, rny, a, b, k) ==
    [R_Nx |-> rnx, R_Ny |-> rny, R_N |-> rnx * rny,
     data4D |-> [rc \in ScanPositions(rnx, rny) |->
                   IF rc[1] * rny + rc[2] = k THEN b ELSE a]]
DataCubes ==
    {DataCube(rnx, rny, a, b, k) :
       rnx \in 1 .. MaxR, rny \in 1 .. MaxR, a \in Patterns, b \in Patterns,
       k \in 0 .. MaxR * MaxR - 1}

Thresholds == {Zero, Rat(1, 5), Rat(4, 5)}
Iterations == 0 .. MaxIter

\* probes with at most two lit pixels, the all-zero probe among them
TwoPixelProbe(p, q, v, w) ==
    [x \in Pix |-> IF x = p THEN v ELSE IF x = q THEN w ELSE 0]
Probes ==
    {AsFloat(TwoPixelProbe(p, q, v, w)) : p \in Pix, q \in Pix, v \in 0 .. MaxVal, w \in 0 .. MaxVal}

None == <<>>

\* ------------------------------------------------------------- state
VARIABLES
    op,             \* the function called
    pc,             \* "call", "loop", "returned", "raised", "recentred"
    datacube,       \* the DataCube argument (None for the kernel generators)
    data4D_at_call, \* datacube.data4D as the caller handed it over
    mask_threshold, mask_opening, mask_expansion,
    n,              \* the loop variable's next value
    probe,          \* the local name probe
    probe_is_view,  \* probe is a view of datacube.data4D[0,0,:,:]
    reads,          \* the scan positions indexed so far, in order
    shifts,         \* (xshift, yshift) of every iteration so far, in order
    aligned,        \* curr_DP_shifted of every iteration so far, in order
    mask,           \* the final mask
    result,         \* the returned array
    probe_arg,      \* the caller's probe array (kernel generators)
    probe_at_call,  \* the same as the caller handed it over
    kparams,        \* sigma_probe_scale, or radius, trenchwidth, blurwidth
    recentred       \* the kernel shifted by minus its own centre of mass

vars == <<op, pc, datacube, data4D_at_call, mask_threshold, mask_opening, mask_expansion,
          n, probe, probe_is_view, reads, shifts, aligned, mask, result, probe_arg,
          probe_at_call, kparams, recentred>>

scanVars == <<datacube, data4D_at_call, mask_threshold, mask_opening, mask_expansion,
              n, probe, probe_is_view, reads, shifts, aligned, mask>>

\* --------------------------- get_average_probe_from_vacuum_scan
InitVacuumScan ==
    /\ op = "get_average_probe_from_vacuum_scan"
    /\ pc = "call"
    /\ datacube \in DataCubes
    /\ data4D_at_call = datacube.data4D
    /\ mask_threshold = None /\ mask_opening = None /\ mask_expansion = None
    /\ n = 0
    /\ probe = None /\ probe_is_view = FALSE
    /\ reads = <<>> /\ shifts = <<>> /\ aligned = <<>>
    /\ mask = None /\ result = None
    /\ probe_arg = None /\ probe_at_call = None /\ kparams = None /\ recentred = None

\* probe = probe*(n-1)/n + curr_DP_shifted/n
IncrementalMean(pr, k, curr_DP_shifted) ==
    Array([p \in Pix |-> FAdd(FDiv(FMul(pr[p], FromInt(k - 1)), FromInt(k)),
                              FDiv(curr_DP_shifted[p], FromInt(k)))])

\* what an array that the name probe may refer to holds after probe = <expression>
\* or return <expression>: the expression builds a new array, the name is rebound
\* (or nothing is bound), and the array referred to before is not written
WrittenThrough(viewed, is_view, new) == IF is_view THEN new ELSE viewed
ViewedArrayAfter(viewed, is_view, new) == viewed

\* mask = probe > np.max(probe)*mask_threshold
ThresholdMask(pr, threshold) ==
    Array([p \in Pix |-> FGreater(pr[p], FMul(np_max(pr), threshold))])

DilationBeforeOpening(pr, threshold, opening, expansion) ==
    binary_opening(binary_dilation(ThresholdMask(pr, threshold), expansion), opening)
\* threshold, then opening, then dilation
FinalMask(pr, threshold, opening, expansion) ==
    binary_dilation(binary_opening(ThresholdMask(pr, threshold), opening), expansion)

\* probe*mask
MaskedProbe(pr, m) == Array([p \in Pix |-> FMul(pr[p], IF m[p] THEN One ELSE Zero)])

\* line 36
VacuumScanFirst ==
    /\ op = "get_average_probe_from_vacuum_scan" /\ pc = "call"
    /\ probe' = datacube.data4D[<<0, 0>>]
    /\ probe_is_view' = TRUE
    /\ reads' = <<<<0, 0>>>>
    /\ n' = 1
    /\ pc' = "loop"
    /\ UNCHANGED <<op, datacube, data4D_at_call, mask_threshold, mask_opening,
                   mask_expansion, shifts, aligned, mask, result, probe_arg,
                   probe_at_call, kparams, recentred>>

LoopRx == n \div datacube.R_Nx
LoopRy == n % datacube.R_Nx

\* lines 37-44, one iteration
VacuumScanIteration ==
    /\ op = "get_average_probe_from_vacuum_scan" /\ pc = "loop"
    /\ n < datacube.R_N
    /\ <<LoopRx, LoopRy>> \in DOMAIN datacube.data4D
    /\ shifts' = Append(shifts, get_shift(probe, datacube.data4D[<<LoopRx, LoopRy>>]))
    /\ aligned' = Append(aligned, get_shifted_ar(datacube.data4D[<<LoopRx, LoopRy>>],
                                                FromInt(shifts'[Len(shifts')][1]),
                                                FromInt(shifts'[Len(shifts')][2])))
    /\ probe' = IncrementalMean(probe, n, aligned'[Len(aligned')])
    /\ datacube' = [datacube EXCEPT !.data4D[<<0, 0>>] = ViewedArrayAfter(@, probe_is_view, probe')]
    /\ probe_is_view' = FALSE
    /\ reads' = Append(reads, <<LoopRx, LoopRy>>)
    /\ n' = n + 1
    /\ UNCHANGED <<op, pc, data4D_at_call, mask_threshold, mask_opening, mask_expansion,
                   mask, result, probe_arg, probe_at_call, kparams, recentred>>

\* line 40 with an index past the end of an axis: IndexError
VacuumScanIndexError ==
    /\ op = "get_average_probe_from_vacuum_scan" /\ pc = "loop"
    /\ n < datacube.R_N
    /\ <<LoopRx, LoopRy>> \notin DOMAIN datacube.data4D
    /\ reads' = Append(reads, <<LoopRx, LoopRy>>)
    /\ pc' = "raised"
    /\ UNCHANGED <<op, datacube, data4D_at_call, mask_threshold, mask_opening,
                   mask_expansion, n, probe, probe_is_view, shifts, aligned, mask,
                   result, probe_arg, probe_at_call, kparams, recentred>>

\* lines 46-50, once the range is exhausted; the three mask parameters are
\* read here for the first time
VacuumScanMask ==
    /\ op = "get_average_probe_from_vacuum_scan" /\ pc = "loop"
    /\ n >= datacube.R_N
    /\ \E threshold \in Thresholds, opening \in Iterations, expansion \in Iterations :
         /\ mask_threshold' = threshold
         /\ mask_opening' = opening
         /\ mask_expansion' = expansion
         /\ mask' = FinalMask(probe, threshold, opening, expansion)
    /\ result' = MaskedProbe(probe, mask')
    /\ datacube' = [datacube EXCEPT !.data4D[<<0, 0>>] = ViewedArrayAfter(@, probe_is_view, result')]
    /\ pc' = "returned"
    /\ UNCHANGED <<op, data4D_at_call, n, probe, probe_is_view, reads, shifts, aligned,
                   probe_arg, probe_at_call, kparams, recentred>>

\* ---------------------------------------------- numpy functions
\* 2^k
RECURSIVE Pow2(_)
Pow2(k) == IF k = 0 THEN 1 ELSE 2 * Pow2(k - 1)

\* np.exp.  The exponential of a rational is not a rational: it is represented
\* by the step function 2^floor(x), saturating at 2^-5 and 2^5, which like exp is
\* positive, non-decreasing and 1 at 0, and has exp's IEEE limits
\* (exp(-inf) = 0, exp(inf) = inf, exp(NaN) = NaN).
np_exp(x) ==
    IF IsNaN(x) THEN NaN
    ELSE IF ~IsFinite(x) THEN (IF x[1] > 0 THEN x ELSE Zero)
    ELSE LET f == Floor(x)
             k == IF f > 5 THEN 5 ELSE IF f < -5 THEN -5 ELSE f
         IN  IF k >= 0 THEN <<Pow2(k), 1>> ELSE <<1, Pow2(-k)>>

RECURSIVE IsqrtFrom(_, _)
IsqrtFrom(v, k) == IF (k + 1) * (k + 1) > v THEN k ELSE IsqrtFrom(v, k + 1)

\* np.sqrt.  sqrt(n/d) = sqrt(n*d)/d, with the integer square root: exact on the
\* squares of rationals, rounded down to the next multiple of 1/d otherwise;
\* sqrt of a negative number is NaN
np_sqrt(x) ==
    IF IsNaN(x) THEN NaN
    ELSE IF ~IsFinite(x) THEN (IF x[1] > 0 THEN x ELSE NaN)
    ELSE IF x[1] < 0 THEN NaN
    ELSE Rat(IsqrtFrom(x[1] * x[2], 0), x[2])

\* ar / s, element by element
DividedBy(ar, s) == Array([p \in Pix |-> FDiv(ar[p], s)])
\* a - b, element by element
Minus(a, b) == Array([p \in Pix |-> FSub(a[p], b[p])])

\* (qx-xCoM)**2 + (qy-yCoM)**2 on the index grids qx[i,j] = i, qy[i,j] = j
SquaredRadius(xCoM, yCoM) ==
    Array([p \in Pix |->
             LET dx == FSub(FromInt(p[1]), xCoM)
                 dy == FSub(FromInt(p[2]), yCoM)
             IN  FAdd(FMul(dx, dx), FMul(dy, dy))])

\* ----------------------------------------------------- the kernels
UnnormalizedKernel(pr) ==
    get_shifted_ar(pr, FNeg(get_CoM(pr)[1]), FNeg(get_CoM(pr)[2]))
ShiftedByCoM(pr) ==
    get_shifted_ar(DividedBy(pr, np_sum(pr)), get_CoM(pr)[1], get_CoM(pr)[2])
\* get_probe_kernel, lines 75-86
ProbeKernel(pr) ==
    get_shifted_ar(DividedBy(pr, np_sum(pr)), FNeg(get_CoM(pr)[1]), FNeg(get_CoM(pr)[2]))

\* lines 109-111
ProbeVariance(pr, q2) ==
    FDiv(np_sum(Array([p \in Pix |-> FMul(q2[p], pr[p])])), np_sum(pr))
\* line 115
SubtrGaussian(q2, qstd2, sigma_probe_scale) ==
    Array([p \in Pix |->
             np_exp(FDiv(FNeg(q2[p]),
                         FMul(FMul(FromInt(2), qstd2),
                              FMul(sigma_probe_scale, sigma_probe_scale))))])
\* get_probe_kernel_subtrgaussian, lines 103-122
SubtrGaussianKernel(pr, sigma_probe_scale) ==
    LET xCoM == get_CoM(pr)[1]
        yCoM == get_CoM(pr)[2]
        q2 == SquaredRadius(xCoM, yCoM)
        subtr_gaussian == SubtrGaussian(q2, ProbeVariance(pr, q2), sigma_probe_scale)
    IN  get_shifted_ar(Minus(DividedBy(pr, np_sum(pr)),
                             DividedBy(subtr_gaussian, np_sum(subtr_gaussian))),
                       FNeg(xCoM), FNeg(yCoM))

\* lines 147-148
TrenchRadius(q2, radius) == Array([p \in Pix |-> FSub(np_sqrt(q2[p]), radius)])
\* 1/(1+np.exp(4*x/blurwidth))
Logistic(x, blurwidth) ==
    FDiv(One, FAdd(One, np_exp(FDiv(FMul(FromInt(4), x), blurwidth))))
\* line 151
LogisticAnnulus(qr, trenchwidth, blurwidth) ==
    Array([p \in Pix |-> FSub(Logistic(qr[p], blurwidth),
                              Logistic(FSub(qr[p], trenchwidth), blurwidth))])
\* get_probe_kernel_logistictrench, lines 140-161
LogisticTrenchKernel(pr, radius, trenchwidth, blurwidth) ==
    LET xCoM == get_CoM(pr)[1]
        yCoM == get_CoM(pr)[2]
        qr == TrenchRadius(SquaredRadius(xCoM, yCoM), radius)
        logistic_annulus == LogisticAnnulus(qr, trenchwidth, blurwidth)
    IN  get_shifted_ar(Minus(DividedBy(pr, np_sum(pr)),
                             DividedBy(logistic_annulus, np_sum(logistic_annulus))),
                       FNeg(xCoM), FNeg(yCoM))

Sigmas == {Rat(1, 2), FromInt(2)}
\* <<radius, trenchwidth, blurwidth>>
Trenches == {<<One, One, One>>, <<One, FromInt(2), FromInt(4)>>, <<Zero, One, FromInt(2)>>}

InitKernel ==
    /\ pc = "call"
    /\ \/ op = "get_probe_kernel" /\ kparams = None
       \/ op = "get_probe_kernel_subtrgaussian" /\ kparams \in Sigmas
       \/ op = "get_probe_kernel_logistictrench" /\ kparams \in Trenches
    /\ probe_arg \in Probes
    /\ probe_at_call = probe_arg
    /\ datacube = None /\ data4D_at_call = None
    /\ mask_threshold = None /\ mask_opening = None /\ mask_expansion = None
    /\ n = 0
    /\ probe = None /\ probe_is_view = FALSE
    /\ reads = <<>> /\ shifts = <<>> /\ aligned = <<>>
    /\ mask = None /\ result = None /\ recentred = None

get_probe_kernel ==
    /\ op = "get_probe_kernel" /\ pc = "call"
    /\ result' = ProbeKernel(probe_arg)
    /\ probe_arg' = ViewedArrayAfter(probe_arg, TRUE, DividedBy(probe_arg, np_sum(probe_arg)))
    /\ pc' = "returned"
    /\ UNCHANGED <<op, scanVars, probe_at_call, kparams, recentred>>

get_probe_kernel_subtrgaussian ==
    /\ op = "get_probe_kernel_subtrgaussian" /\ pc = "call"
    /\ result' = SubtrGaussianKernel(probe_arg, kparams)
    /\ pc' = "returned"
    /\ UNCHANGED <<op, scanVars, probe_arg, probe_at_call, kparams, recentred>>

get_probe_kernel_logistictrench ==
    /\ op = "get_probe_kernel_logistictrench" /\ pc = "call"
    /\ result' = LogisticTrenchKernel(probe_arg, kparams[1], kparams[2], kparams[3])
    /\ pc' = "returned"
    /\ UNCHANGED <<op, scanVars, probe_arg, probe_at_call, kparams, recentred>>

\* the kernel shifted by minus its own centre of mass (section 8 of the
\* specification: re-centering a kernel)
Recentre ==
    /\ op = "get_probe_kernel" /\ pc = "returned"
    /\ recentred' = get_shifted_ar(result, FNeg(get_CoM(result)[1]), FNeg(get_CoM(result)[2]))
    /\ pc' = "recentred"
    /\ UNCHANGED <<op, scanVars, result, probe_arg, probe_at_call, kparams>>

Init == InitVacuumScan \/ InitKernel

Next ==
    \/ VacuumScanFirst
    \/ VacuumScanIteration
    \/ VacuumScanIndexError
    \/ VacuumScanMask
    \/ get_probe_kernel
    \/ get_probe_kernel_subtrgaussian
    \/ get_probe_kernel_logistictrench
    \/ Recentre

Spec == Init /\ [][Next]_vars

\* ------------------------------------------------------ the claims
VacuumScan == op = "get_average_probe_from_vacuum_scan"
KernelCall == op \in {"get_probe_kernel", "get_probe_kernel_subtrgaussian",
                      "get_probe_kernel_logistictrench"}
\* the call is over: it returned or it raised
Finished == pc \in {"returned", "raised", "recentred"}
NonZero(ar) == {p \in Pix : ar[p] # Zero}
IsSquare == datacube.R_Nx = datacube.R_Ny

AllPatternsIdentical ==
    \A rc \in DOMAIN data4D_at_call : data4D_at_call[rc] = data4D_at_call[<<0, 0>>]
ZeroShifts == \A i \in 1 .. Len(shifts) : shifts[i] = <<0, 0>>

\* C2: on a dataset of N >= 1 identical patterns, every estimated shift being
\* zero, the call returns that pattern multiplied by its mask: the running
\* average after the loop is the common pattern.
C2_IdenticalPatternsReturned ==
    (VacuumScan /\ AllPatternsIdentical /\ ZeroShifts /\ Finished) =>
        /\ pc = "returned"
        /\ probe = data4D_at_call[<<0, 0>>]
        /\ result = MaskedProbe(data4D_at_call[<<0, 0>>], mask)

\* what C2 says, on the calls that return (the square scans)
IdenticalPatternsWhenReturned ==
    (VacuumScan /\ AllPatternsIdentical /\ pc = "returned") =>
        /\ ZeroShifts
        /\ probe = data4D_at_call[<<0, 0>>]
        /\ result = MaskedProbe(data4D_at_call[<<0, 0>>], mask)

\* C3: the kernel of a probe with a nonzero sum has sum 1.
C3_KernelSumsToOne ==
    (op = "get_probe_kernel" /\ pc \in {"returned", "recentred"}
       /\ np_sum(probe_at_call) # Zero) =>
        np_sum(result) = One

\* a kernel of a probe whose centre of mass lies between pixels, so that the
\* corner shift interpolates
C3_Witness ==
    /\ op = "get_probe_kernel" /\ pc = "returned"
    /\ np_sum(probe_at_call) # Zero
    /\ get_CoM(probe_at_call)[1][2] > 1
    /\ get_CoM(probe_at_call)[2][2] > 1
    /\ Cardinality(NonZero(result)) > Cardinality(NonZero(probe_at_call))

\* C4: for a probe with a nonzero sum and positive parameters, the kernels of
\* get_probe_kernel_subtrgaussian and get_probe_kernel_logistictrench have sum 0.
C4_BackgroundSubtractedSumsToZero ==
    (op \in {"get_probe_kernel_subtrgaussian", "get_probe_kernel_logistictrench"}
       /\ pc = "returned" /\ np_sum(probe_at_call) # Zero) =>
        np_sum(result) = Zero

\* what C4 says, on the probes with more than one lit pixel and on every
\* logistic-trench kernel
SumsToZeroUnlessOneLitPixel ==
    (op \in {"get_probe_kernel_subtrgaussian", "get_probe_kernel_logistictrench"}
       /\ pc = "returned" /\ np_sum(probe_at_call) # Zero
       /\ (op = "get_probe_kernel_logistictrench"
             \/ Cardinality(NonZero(probe_at_call)) > 1)) =>
        np_sum(result) = Zero

ReadsAsSet == {reads[i] : i \in 1 .. Len(reads)}

\* C5: every scan position is read exactly once, position (0,0) first, and no
\* index with row >= R_Nx or column >= R_Ny is ever read.
C5_EveryPositionReadOnce ==
    VacuumScan =>
        /\ \A i \in 1 .. Len(reads) :
              reads[i][1] < datacube.R_Nx /\ reads[i][2] < datacube.R_Ny
        /\ \A i, j \in 1 .. Len(reads) : i # j => reads[i] # reads[j]
        /\ Finished => ReadsAsSet = ScanPositions(datacube.R_Nx, datacube.R_Ny)

\* what C5 says, on the square scans
SquareScanReadOnce ==
    (VacuumScan /\ IsSquare) =>
        /\ pc # "raised"
        /\ ReadsAsSet \subseteq ScanPositions(datacube.R_Nx, datacube.R_Ny)
        /\ Cardinality(ReadsAsSet) = Len(reads)
        /\ Finished => ReadsAsSet = ScanPositions(datacube.R_Nx, datacube.R_Ny)
\* and every scan that is not square raises
OnlySquareScansReturn ==
    (VacuumScan /\ Finished) => (pc = "returned" <=> IsSquare)

\* C6: on a probe whose sum is zero each kernel generator ends in an error and
\* returns no kernel; it never returns an array that holds NaN.
C6_ZeroSumProbeRaises ==
    (KernelCall /\ np_sum(probe_at_call) = Zero /\ Finished) =>
        /\ pc = "raised"
        /\ result = None

\* what the code does instead: it returns an array of NaN
ZeroSumProbeReturnsNaN ==
    (KernelCall /\ np_sum(probe_at_call) = Zero /\ Finished) =>
        /\ pc # "raised"
        /\ \A p \in Pix : IsNaN(result[p])

C8_ExpansionMonotone ==
    (VacuumScan /\ pc = "returned") =>
        \A e2 \in Iterations :
            e2 >= mask_expansion =>
                NonZero(result) \subseteq
                    NonZero(MaskedProbe(probe, FinalMask(probe, mask_threshold,
                                                         mask_opening, e2)))

\* what C8 says, for 1 <= e1 <= e2
ExpansionMonotoneFromOne ==
    (VacuumScan /\ pc = "returned" /\ mask_expansion >= 1) =>
        \A e2 \in Iterations :
            e2 >= mask_expansion =>
                NonZero(result) \subseteq
                    NonZero(MaskedProbe(probe, FinalMask(probe, mask_threshold,
                                                         mask_opening, e2)))

\* C9: no call writes to its input: the dataset holds the patterns it held at
\* the call, pattern (0,0) included, and the caller's probe array is as it was.
C9_InputsUnchanged ==
    /\ VacuumScan => datacube.data4D = data4D_at_call
    /\ KernelCall => probe_arg = probe_at_call

\* a one-position scan has returned: the loop never ran, probe is still the view
\* of pattern (0,0), and the masked output differs from that pattern
C9_Witness ==
    /\ VacuumScan /\ pc = "returned"
    /\ datacube.R_N = 1
    /\ probe_is_view
    /\ result # data4D_at_call[<<0, 0>>]

RECURSIVE SumOfFrames(_, _, _)
SumOfFrames(frames, k, p) ==
    IF k = 0 THEN Zero ELSE FAdd(SumOfFrames(frames, k - 1, p), frames[k][p])
\* the arithmetic mean of a sequence of frames
MeanOfFrames(frames) ==
    [p \in Pix |-> FDiv(SumOfFrames(frames, Len(frames), p), FromInt(Len(frames)))]

\* C10: for N >= 2 the loop runs the recurrence for n = 1 .. N-1 and the running
\* average after it is the arithmetic mean of the N-1 shifted frames 1 .. N-1.
C10_MeanOfShiftedFrames ==
    (VacuumScan /\ datacube.R_N >= 2 /\ Finished) =>
        /\ pc = "returned"
        /\ Len(aligned) = datacube.R_N - 1
        /\ probe = MeanOfFrames(aligned)

\* what C10 says, as far as the loop gets: after k iterations the running
\* average is the mean of the k shifted frames
MeanOfShiftedFramesSoFar ==
    (VacuumScan /\ Len(aligned) >= 1) => probe = MeanOfFrames(aligned)

====
